---- MODULE Spec2Model ----
(***************************************************************************)
(* Bytecap: the scan-aggregate-evaluate-escalate pipeline.                 *)
(*                                                                         *)
(*   Spec      the alert escalator of the frontend (App.vue):              *)
(*             showThresholdAlert, its setInterval callback and            *)
(*             clearAllNotifications.                                      *)
(*   TeardownSpec  the same with the unmounting of the component.          *)
(*   ApplySpec  the escalator driven by applySettings and the events of    *)
(*             its checkFileSizeThresholds calls.                          *)
(*   LoadSpec  the frontend's loadWorkspaceFiles and its triggers.         *)
(*   ScanSpec  the backend's getWorkspaceFiles (index.ts), one step per    *)
(*             await of the directory walk.                                *)
(*   EvalSpec  the backend's checkFileSizeThresholds (index.ts).           *)
(*   PathSpec  the path selection of the explicit-path variant of          *)
(*             getWorkspaceFiles (part_000).                               *)
(***************************************************************************)
EXTENDS Integers, Sequences, FiniteSets, TLC

VARIABLES
  \* ---- escalator (App.vue) ----
  ignoredAlerts,   \* Set<string> of alert keys
  alertCounters,   \* Map key -> counter object (0: no entry)
  heap,            \* the counter objects ever created: [count, intervalId]
  closures,        \* the setInterval callbacks ever created: [key, counter, alert]
  timers,          \* the interval ids that are live (armed, not cleared)
  flashBanner,     \* the banner, or Undefined
  uiAlerts,        \* alerts.value
  uiWarnings,      \* warnings.value
  mounted,         \* the component is mounted
  \* history of the escalator
  shown,           \* per key: the number of dialogs displayed
  delivered,       \* per key: the number of events delivered
  sinceClear,      \* the keys delivered since the last global clear
  restartAt,       \* per key: the dialogs displayed before its latest event,
                   \* if that event found the identity completed (else -1)
  cleared,         \* clearAllNotifications has run at least once
  lastOp,          \* the handler that ran last
  lastDialog,      \* the key the last handler ran for and the occurrence
                   \* number of the dialog it displayed (0: none displayed)
  \* ---- getWorkspaceFiles (index.ts) ----
  fs,              \* the directory tree under the project directory
  scanPc,          \* position of the call
  scanCase,        \* which way the call went before the walk
  stack,           \* the active scanDirectory calls, innermost first
  files,           \* const files: FileInfo[]
  totalSize,       \* let totalSize
  walkOrder,       \* history: files as the walk pushed them, before the sort
  failed,          \* history: the nodes whose readdir or stat failed
  scanResult,      \* the DirectoryInfo the call returned
  scanOutcome,     \* "pending", "returned" or "rejected"
  scanEvents,      \* the file-scan-complete events sent
  \* ---- checkFileSizeThresholds (index.ts) and its caller's settings ----
  evalPc,              \* "idle", "ready" or "done"
  directoryInfo,       \* the inventory passed in
  thresholdMB,         \* thresholdMB.value
  enableWarnings,      \* enableWarnings.value
  warningAt75Percent,  \* the 75% toggle
  warningAt90Percent,  \* the 90% toggle
  evalResult,          \* { alerts, warnings } returned
  evalEvents,          \* the threshold-alert events sent, in order
  \* ---- getWorkspaceFiles(sdk, workspacePath?) (part_000) ----
  workspacePath,   \* the argument: null, undefined or a string
  platform,        \* os.platform()
  pathPc,          \* "idle", "start", "selected" or "done"
  path,            \* let path
  pathSource,      \* history: the branch that assigned path
  project,         \* history: what getCurrent answered ("unasked" if not called)
  pathOutcome,     \* "pending", "empty" (the empty inventory) or "walk"
  \* ---- loadWorkspaceFiles (App.vue) ----
  isLoading,       \* isLoading.value
  workspaceFiles,  \* workspaceFiles.value: the call it came from and its kind
  loads,           \* history: the trigger of every loadWorkspaceFiles call
  inFlight,        \* the calls awaiting sdk.backend.getWorkspaceFiles()
  \* ---- applySettings and checkThresholds (App.vue) ----
  applyCount,      \* history: the number of applySettings runs
  pendingEvents,   \* threshold-alert events sent and not yet delivered, each
                   \* with the applySettings run whose call sent it
  checks,          \* the checkFileSizeThresholds calls awaiting their answer
  lastEventCall,   \* history: the run whose event was delivered last
  armedBy          \* history: per timer, the run whose event armed it

escVars == <<ignoredAlerts, alertCounters, heap, closures, timers, flashBanner,
             uiAlerts, uiWarnings, mounted, shown, delivered, sinceClear, restartAt,
             cleared, lastOp, lastDialog>>

scanVars == <<fs, scanPc, scanCase, stack, files, totalSize, walkOrder, failed,
              scanResult, scanOutcome, scanEvents>>

evalVars == <<evalPc, directoryInfo, thresholdMB, enableWarnings,
              warningAt75Percent, warningAt90Percent, evalResult, evalEvents>>

pathVars == <<workspacePath, platform, pathPc, path, pathSource, project,
              pathOutcome>>

loadVars == <<isLoading, workspaceFiles, loads, inFlight>>

applyVars == <<applyCount, pendingEvents, checks, lastEventCall, armedBy>>

vars == <<escVars, scanVars, evalVars, pathVars, loadVars, applyVars>>

(***************************************************************************)
(* Bounds                                                                  *)
(***************************************************************************)
MaxDeliveries == 2   \* events delivered per identity in one run
MaxTimers == 2       \* setInterval calls in one run
MaxShown == 6        \* dialogs displayed per identity in one run
MaxNodes == 3        \* directory entries below the scanned root
MaxFiles == 3        \* files of an evaluated inventory
MaxPathLen == 3      \* characters of an explicit path
MaxLoads == 4        \* loadWorkspaceFiles calls in one run
MaxApplies == 2      \* applySettings runs in one run

(***************************************************************************)
(* Escalator                                                               *)
(***************************************************************************)
\* flashBanner.value = undefined
Undefined == [type |-> "undefined", message |-> ""]
NoDialog == [key |-> "", number |-> 0]

\* the threshold-alert payloads the backend sends: type and message
AlertEvents ==
  { [type |-> "error", message |-> "m"], [type |-> "warning", message |-> "m"] }

AlertKey(alert) == alert.type \o ":" \o alert.message

Keys == { AlertKey(a) : a \in AlertEvents }

\* the occurrence after which the interval callback stops its timer
CompletedOff(count) == count > 3
Completed(count) == count >= 3

\* clearInterval(id): an id of 0 stands for an undefined intervalId
ClearInterval(live, id) == live \ {id}

\* the dialog of showSingleAlert; ok is the user's answer to confirm()
\* c is the counter object of the closure, number the alertNumber
AfterDialog(alert, c, number, ok, h, live, ign, banner) ==
  LET key == AlertKey(alert) IN
  IF ~ok
    THEN [ign    |-> ign \cup {key},
          live   |-> IF h[c].intervalId # 0
                       THEN ClearInterval(live, h[c].intervalId) ELSE live,
          heap   |-> IF h[c].intervalId # 0
                       THEN [h EXCEPT ![c].intervalId = 0] ELSE h,
          banner |-> banner]
    ELSE [ign    |-> ign,
          live   |-> live,
          heap   |-> h,
          banner |-> IF number = 1 THEN alert ELSE banner]

EscInit ==
  /\ ignoredAlerts = {}
  /\ alertCounters = [k \in Keys |-> 0]
  /\ heap = <<>>
  /\ closures = <<>>
  /\ timers = {}
  /\ flashBanner = Undefined
  /\ uiAlerts = <<>>
  /\ uiWarnings = <<>>
  /\ mounted = TRUE
  /\ shown = [k \in Keys |-> 0]
  /\ delivered = [k \in Keys |-> 0]
  /\ sinceClear = {}
  /\ restartAt = [k \in Keys |-> -1]
  /\ cleared = FALSE
  /\ lastOp = "init"
  /\ lastDialog = NoDialog

\* counter.count = 1
FirstOccurrenceKept(h, c) ==
  IF h[c].count = 0 THEN [h EXCEPT ![c].count = 1] ELSE h
FirstOccurrence(h, c) == [h EXCEPT ![c].count = 1]

\* an identity that went through its three occurrences: its counter is at
\* 3, it is not ignored and no timer of it is live
CompletedIdentity(key) ==
  /\ alertCounters[key] # 0
  /\ heap[alertCounters[key]].count = 3
  /\ key \notin ignoredAlerts
  /\ \A t \in timers : closures[t].key # key

IgnoredOnDeliveryOff(key) == FALSE
IgnoredOnDelivery(key) == key \in ignoredAlerts

\* showThresholdAlert(alert), with the user's answer ok to its dialog; its
\* callers add what they do to the state of applySettings
ShowThresholdAlert(alert, ok) ==
  LET key == AlertKey(alert) IN
  /\ delivered[key] < MaxDeliveries
  /\ ~IgnoredOnDelivery(key) => shown[key] < MaxShown
  /\ (~IgnoredOnDelivery(key) /\ ok) => Len(closures) < MaxTimers
  /\ delivered' = [delivered EXCEPT ![key] = @ + 1]
  /\ sinceClear' = sinceClear \cup {key}
  /\ restartAt' = [restartAt EXCEPT ![key] =
                      IF CompletedIdentity(key) THEN shown[key] ELSE -1]
  /\ lastOp' = "event"
  /\ UNCHANGED <<cleared, uiAlerts, uiWarnings, mounted, scanVars, evalVars,
                 pathVars, loadVars>>
  /\ IF IgnoredOnDelivery(key)
       THEN /\ lastDialog' = [key |-> key, number |-> 0]
            /\ UNCHANGED <<ignoredAlerts, alertCounters, heap, closures,
                           timers, flashBanner, shown>>
       ELSE LET fresh == alertCounters[key] = 0
                c     == IF fresh THEN Len(heap) + 1 ELSE alertCounters[key]
                h0    == IF fresh
                           THEN Append(heap, [count |-> 0, intervalId |-> 0])
                           ELSE heap
                h1    == FirstOccurrence(h0, c)
                d     == AfterDialog(alert, c, 1, ok, h1, timers,
                                     ignoredAlerts, flashBanner)
                id    == Len(closures) + 1
            IN
            /\ alertCounters' = [alertCounters EXCEPT ![key] = c]
            /\ shown' = [shown EXCEPT ![key] = @ + 1]
            /\ lastDialog' = [key |-> key, number |-> 1]
            /\ ignoredAlerts' = d.ign
            /\ flashBanner' = d.banner
            /\ IF key \notin d.ign
                 THEN /\ heap' = [d.heap EXCEPT ![c].intervalId = id]
                      /\ closures' = Append(closures,
                            [key |-> key, counter |-> c, alert |-> alert])
                      /\ timers' = d.live \cup {id}
                 ELSE /\ heap' = d.heap
                      /\ timers' = d.live
                      /\ UNCHANGED closures

IgnoredOnFireOff(key) == FALSE
IgnoredOnFire(key) == key \in ignoredAlerts

\* the setInterval callback of timer t fires; ok answers its dialog, if any
IntervalCallback(t, ok) ==
  LET key == closures[t].key
      c   == closures[t].counter
  IN
  /\ t \in timers
  /\ lastOp' = "timer"
  /\ UNCHANGED <<alertCounters, closures, delivered, sinceClear, restartAt, cleared, uiAlerts,
                 uiWarnings, mounted, scanVars, evalVars, pathVars, loadVars, applyVars>>
  /\ IF IgnoredOnFire(key)
       THEN /\ ok
            /\ timers' = IF heap[c].intervalId # 0
                           THEN ClearInterval(timers, heap[c].intervalId)
                           ELSE timers
            /\ heap' = IF heap[c].intervalId # 0
                         THEN [heap EXCEPT ![c].intervalId = 0] ELSE heap
            /\ lastDialog' = [key |-> key, number |-> 0]
            /\ UNCHANGED <<ignoredAlerts, flashBanner, shown>>
       ELSE LET n  == heap[c].count + 1
                h1 == [heap EXCEPT ![c].count = n]
                d  == AfterDialog(closures[t].alert, c, n, ok, h1, timers,
                                  ignoredAlerts, flashBanner)
                stop == Completed(n) /\ d.heap[c].intervalId # 0
            IN
            /\ shown[key] < MaxShown
            /\ shown' = [shown EXCEPT ![key] = @ + 1]
            /\ lastDialog' = [key |-> key, number |-> n]
            /\ ignoredAlerts' = d.ign
            /\ flashBanner' = d.banner
            /\ timers' = IF stop
                           THEN ClearInterval(d.live, d.heap[c].intervalId)
                           ELSE d.live
            /\ heap' = IF stop THEN [d.heap EXCEPT ![c].intervalId = 0]
                               ELSE d.heap

\* the interval ids clearAllNotifications passes to clearInterval
ClearedIdsNone == {}
ClearedIds ==
  { heap[alertCounters[k]].intervalId : k \in {x \in Keys : alertCounters[x] # 0} }

\* clearAllNotifications()
ClearAllNotifications ==
  /\ mounted
  /\ timers' = timers \ ClearedIds
  /\ alertCounters' = [k \in Keys |-> 0]
  /\ ignoredAlerts' = {}
  /\ flashBanner' = Undefined
  /\ uiAlerts' = <<>>
  /\ uiWarnings' = <<>>
  /\ sinceClear' = {}
  /\ restartAt' = [k \in Keys |-> -1]
  /\ cleared' = TRUE
  /\ lastOp' = "clear"
  /\ lastDialog' = NoDialog
  /\ UNCHANGED <<heap, closures, mounted, shown, delivered, scanVars, evalVars,
                 pathVars, loadVars>>

\* the listener of bytecap:threshold-alert, for an event that no modelled
\* applySettings run stands behind
OnThresholdAlert(alert, ok) ==
  /\ ShowThresholdAlert(alert, ok)
  /\ UNCHANGED applyVars

\* a click on Clear Alerts
OnClearClick ==
  /\ ClearAllNotifications
  /\ UNCHANGED applyVars

\* the component is unmounted: the script registers no teardown hook, so
\* nothing of the escalator is touched
Unmount ==
  /\ mounted
  /\ mounted' = FALSE
  /\ lastOp' = "unmount"
  /\ lastDialog' = NoDialog
  /\ UNCHANGED <<ignoredAlerts, alertCounters, heap, closures, timers,
                 flashBanner, uiAlerts, uiWarnings, shown, delivered, sinceClear,
                 restartAt, cleared, scanVars, evalVars, pathVars, loadVars, applyVars>>

(***************************************************************************)
(* getWorkspaceFiles                                                       *)
(***************************************************************************)
Nodes == 1..MaxNodes
Root == 0
FileSizes == {1, 2}
Exts == {"caido", "txt"}

\* a directory entry: its parent directory (Root or a node), what
\* entry.isFile() / entry.isDirectory() say, the size stat reports and the
\* extension of entry.name
NodeRecs ==
  [parent : 0..(MaxNodes - 1), kind : {"file"}, size : FileSizes, ext : Exts]
  \cup [parent : 0..(MaxNodes - 1), kind : {"dir"}, size : {0}, ext : Exts]
  \cup [parent : 0..(MaxNodes - 1), kind : {"other"}, size : {0}, ext : {"txt"}]

\* entries are numbered in the order readdir lists them, parents first
Trees ==
  { t \in [Nodes -> NodeRecs] :
      \A n \in Nodes : /\ t[n].parent < n
                       /\ t[n].parent # Root => t[t[n].parent].kind = "dir" }

RECURSIVE SeqOfSet(_)
SeqOfSet(S) ==
  IF S = {} THEN <<>>
  ELSE LET m == CHOOSE x \in S : \A y \in S : x <= y
       IN <<m>> \o SeqOfSet(S \ {m})

\* readdir(dirPath, { withFileTypes: true })
ReadDir(dir) == SeqOfSet({ n \in Nodes : fs[n].parent = dir })

\* entry.name
EntryName(n) == [id |-> n, ext |-> fs[n].ext]

\* displayName: relativePath ? `${relativePath}/${entry.name}` : entry.name
DisplayName(relativePath, n) == Append(relativePath, EntryName(n))

\* file.name.endsWith(".caido")
EndsWithCaidoAnywhere(name) == \E i \in 1..Len(name) : name[i].ext = "caido"
EndsWithCaido(name) == name[Len(name)].ext = "caido"

EMPTY_INFO ==
  [files |-> <<>>, totalSize |-> 0, scanPath |-> "",
   caidoFiles |-> <<>>, caidoTotalSize |-> 0]

\* files.push({ name, size, ... })
FileInfo(name, size) == [name |-> name, size |-> size]

\* totalSize += size, on the path where stat succeeded
AddSizeAlways(total, size, statOk) == total + size
AddSize(total, size, statOk) == IF statOk THEN total + size ELSE total

\* Array.prototype.sort with (a, b) => b.size - a.size: a stable sort,
\* a stays before b unless the comparator is positive
RECURSIVE InsertUnstable(_, _)
InsertUnstable(sorted, x) ==
  IF sorted = <<>> THEN <<x>>
  ELSE LET last == sorted[Len(sorted)] IN
       IF x.size - last.size >= 0
         THEN Append(InsertUnstable(SubSeq(sorted, 1, Len(sorted) - 1), x), last)
         ELSE Append(sorted, x)

RECURSIVE Insert(_, _)
Insert(sorted, x) ==
  IF sorted = <<>> THEN <<x>>
  ELSE LET last == sorted[Len(sorted)] IN
       IF x.size - last.size > 0
         THEN Append(Insert(SubSeq(sorted, 1, Len(sorted) - 1), x), last)
         ELSE Append(sorted, x)

RECURSIVE SortBySizeDescUnstable(_)
SortBySizeDescUnstable(s) ==
  IF s = <<>> THEN <<>>
  ELSE InsertUnstable(SortBySizeDescUnstable(SubSeq(s, 1, Len(s) - 1)), s[Len(s)])

RECURSIVE SortBySizeDesc(_)
SortBySizeDesc(s) ==
  IF s = <<>> THEN <<>>
  ELSE Insert(SortBySizeDesc(SubSeq(s, 1, Len(s) - 1)), s[Len(s)])

\* files.filter((file) => file.name.endsWith(".caido"))
RECURSIVE FilterCaido(_)
FilterCaido(s) ==
  IF s = <<>> THEN <<>>
  ELSE IF EndsWithCaido(Head(s).name)
         THEN <<Head(s)>> \o FilterCaido(Tail(s))
         ELSE FilterCaido(Tail(s))

\* caidoFiles.reduce((total, file) => total + file.size, 0)
RECURSIVE ReduceSize(_)
ReduceSize(s) == IF s = <<>> THEN 0 ELSE Head(s).size + ReduceSize(Tail(s))

\* the inventory built from the walked files: sort, filter, reduce
Inventory(walked, total, scanPath) ==
  LET sorted     == SortBySizeDesc(walked)
      caidoFiles == FilterCaido(sorted)
  IN [files |-> sorted, totalSize |-> total, scanPath |-> scanPath,
      caidoFiles |-> caidoFiles, caidoTotalSize |-> ReduceSize(caidoFiles)]

\* formatBytes(bytes): the number with at most two decimals, in hundredths,
\* and the unit; i = floor(log(bytes) / log(1024))
FormatBytes(bytes) ==
  IF bytes = 0 THEN [hundredths |-> 0, unit |-> "B"]
  ELSE LET i == IF bytes < 1024 THEN 0
                ELSE IF bytes < 1048576 THEN 1
                ELSE IF bytes < 1073741824 THEN 2 ELSE 3
           k == 1024 ^ i
       IN [hundredths |-> (bytes * 200 + k) \div (2 * k),
           unit |-> <<"B", "KB", "MB", "GB">>[i + 1]]

\* the summary sent with bytecap:file-scan-complete
ScanCompleteEventMiscounted(info) ==
  [fileCount |-> Len(info.files),
   caidoFileCount |-> Len(info.files),
   totalSize |-> FormatBytes(info.totalSize),
   caidoTotalSize |-> FormatBytes(info.caidoTotalSize)]
ScanCompleteEvent(info) ==
  [fileCount |-> Len(info.files),
   caidoFileCount |-> Len(info.caidoFiles),
   totalSize |-> FormatBytes(info.totalSize),
   caidoTotalSize |-> FormatBytes(info.caidoTotalSize)]

\* the catch around readdir and the loop: the scanDirectory call that failed
\* returns, its callers go on
AfterScanErrorAbort(stk) == <<>>
AfterScanError(stk) == Tail(stk)

\* the catch of getWorkspaceFiles
OnTopLevelErrorRethrow == [outcome |-> "rejected", result |-> EMPTY_INFO]
OnTopLevelError == [outcome |-> "returned", result |-> EMPTY_INFO]

\* todo of a call whose readdir has not answered yet (no entry is numbered 0)
Unread == <<0>>
Frame(dir, rel) == [dir |-> dir, rel |-> rel, todo |-> Unread]

ScanIdle ==
  /\ fs = [n \in Nodes |-> [parent |-> 0, kind |-> "other", size |-> 0, ext |-> "txt"]]
  /\ scanPc = "idle"
  /\ scanCase = "none"
  /\ stack = <<>>
  /\ files = <<>>
  /\ totalSize = 0
  /\ walkOrder = <<>>
  /\ failed = {}
  /\ scanResult = EMPTY_INFO
  /\ scanOutcome = "pending"
  /\ scanEvents = <<>>

ScanInit ==
  /\ fs \in Trees
  /\ scanPc = "getCurrent"
  /\ scanCase = "none"
  /\ stack = <<>>
  /\ files = <<>>
  /\ totalSize = 0
  /\ walkOrder = <<>>
  /\ failed = {}
  /\ scanResult = EMPTY_INFO
  /\ scanOutcome = "pending"
  /\ scanEvents = <<>>

Return(case, outcome, result) ==
  /\ scanPc' = "done"
  /\ scanCase' = case
  /\ scanOutcome' = outcome
  /\ scanResult' = result

\* await sdk.projects.getCurrent(): a project, none, or a rejection
GetCurrent(answer) ==
  /\ scanPc = "getCurrent"
  /\ UNCHANGED <<escVars, evalVars, pathVars, loadVars, applyVars, fs, stack, files, totalSize, walkOrder, failed,
                 scanEvents>>
  /\ CASE answer = "project" ->
            /\ scanPc' = "pathExists"
            /\ UNCHANGED <<scanCase, scanOutcome, scanResult>>
       [] answer = "none" -> Return("noProject", "returned", EMPTY_INFO)
       [] OTHER -> Return("failure", OnTopLevelError.outcome,
                          OnTopLevelError.result)

\* await pathExists(projectDir)
PathExists(exists) ==
  /\ scanPc = "pathExists"
  /\ UNCHANGED <<escVars, evalVars, pathVars, loadVars, applyVars, fs, files, totalSize, walkOrder, failed, scanEvents>>
  /\ IF exists
       THEN /\ scanPc' = "walk"
            /\ scanCase' = "walk"
            /\ stack' = <<Frame(Root, <<>>)>>
            /\ UNCHANGED <<scanOutcome, scanResult>>
       ELSE /\ Return("rootMissing", "returned", EMPTY_INFO)
            /\ UNCHANGED stack

\* await readdir(dirPath) of the innermost scanDirectory call
ScanReadDir(ok) ==
  /\ scanPc = "walk"
  /\ stack # <<>>
  /\ Head(stack).todo = Unread
  /\ UNCHANGED <<escVars, evalVars, pathVars, loadVars, applyVars, fs, scanPc, scanCase, files, totalSize, walkOrder,
                 scanResult, scanOutcome, scanEvents>>
  /\ IF ok
       THEN /\ stack' = <<[Head(stack) EXCEPT !.todo = ReadDir(Head(stack).dir)]>>
                        \o Tail(stack)
            /\ UNCHANGED failed
       ELSE /\ stack' = AfterScanError(stack)
            /\ failed' = failed \cup {Head(stack).dir}

\* one iteration of for (const entry of entries); statOk: stat succeeds
ScanEntry(statOk) ==
  /\ scanPc = "walk"
  /\ stack # <<>>
  /\ Head(stack).todo # Unread
  /\ Head(stack).todo # <<>>
  /\ LET top    == Head(stack)
         n      == Head(top.todo)
         name   == DisplayName(top.rel, n)
         rest   == [top EXCEPT !.todo = Tail(top.todo)]
     IN
     /\ UNCHANGED <<escVars, evalVars, pathVars, loadVars, applyVars, fs, scanPc, scanCase, walkOrder, scanResult,
                    scanOutcome, scanEvents>>
     /\ CASE fs[n].kind = "file" ->
               /\ files' = IF statOk THEN Append(files, FileInfo(name, fs[n].size))
                                     ELSE files
               /\ totalSize' = AddSize(totalSize, fs[n].size, statOk)
               /\ failed' = IF statOk THEN failed ELSE failed \cup {n}
               /\ stack' = <<rest>> \o Tail(stack)
          [] fs[n].kind = "dir" ->
               /\ statOk
               /\ stack' = <<Frame(n, name), rest>> \o Tail(stack)
               /\ UNCHANGED <<files, totalSize, failed>>
          [] OTHER ->
               /\ statOk
               /\ stack' = <<rest>> \o Tail(stack)
               /\ UNCHANGED <<files, totalSize, failed>>

\* the loop of the innermost scanDirectory call is over: it returns
ScanDirectoryReturn ==
  /\ scanPc = "walk"
  /\ stack # <<>>
  /\ Head(stack).todo = <<>>
  /\ stack' = Tail(stack)
  /\ UNCHANGED <<escVars, evalVars, pathVars, loadVars, applyVars, fs, scanPc, scanCase, files, totalSize, walkOrder,
                 failed, scanResult, scanOutcome, scanEvents>>

\* after await scanDirectory(projectDir): sort, filter, reduce, send, return
\* sendOk: sdk.api.send does not throw
ScanFinish(sendOk) ==
  /\ scanPc = "walk"
  /\ stack = <<>>
  /\ LET info == Inventory(files, totalSize, "projectDir") IN
     /\ walkOrder' = files
     /\ files' = info.files
     /\ IF sendOk
          THEN /\ scanEvents' = Append(scanEvents, ScanCompleteEvent(info))
               /\ Return("walk", "returned", info)
          ELSE /\ Return("failure", OnTopLevelError.outcome,
                         OnTopLevelError.result)
               /\ UNCHANGED scanEvents
  /\ UNCHANGED <<escVars, evalVars, pathVars, loadVars, applyVars, fs, stack, totalSize, failed>>

ScanNext ==
  \/ \E answer \in {"project", "none", "throws"} : GetCurrent(answer)
  \/ \E exists \in BOOLEAN : PathExists(exists)
  \/ \E ok \in BOOLEAN : ScanReadDir(ok)
  \/ \E statOk \in BOOLEAN : ScanEntry(statOk)
  \/ ScanDirectoryReturn
  \/ \E sendOk \in BOOLEAN : ScanFinish(sendOk)

(***************************************************************************)
(* checkFileSizeThresholds                                                 *)
(***************************************************************************)
\* file sizes in bytes around the 75%, 90% and 100% marks of 1 MB
EvalSizes == {786431, 786432, 943718, 943719, 1048575, 1048576}
\* thresholdMB, the non-positive values included: nothing validates it
ThresholdsMB == {-1, 0, 1, 2}

\* computed warningPercentages of the settings panel
WarningPercentages(at75, at90) ==
  (IF at75 THEN <<75>> ELSE <<>>) \o (IF at90 THEN <<90>> ELSE <<>>)

\* const thresholdBytes = thresholdMB * 1024 * 1024
ThresholdBytes(mb) == mb * 1024 * 1024

\* size >= thresholdBytes
ExceedsStrict(size, thresholdBytes) == size > thresholdBytes
Exceeds(size, thresholdBytes) == size >= thresholdBytes

\* size >= (thresholdBytes * percentage) / 100, a comparison of an integer
\* with an exactly representable product divided by 100
AtBand(size, thresholdBytes, percentage) ==
  size * 100 >= thresholdBytes * percentage

\* for (const percentage of warningPercentages) { if (...) { ...; break; } }
\* the percentage of the warning produced, 0 when the loop ends without one
RECURSIVE FirstBand(_, _, _)
FirstBand(size, thresholdBytes, percentages) ==
  IF percentages = <<>> THEN 0
  ELSE IF AtBand(size, thresholdBytes, Head(percentages))
         THEN Head(percentages)
         ELSE FirstBand(size, thresholdBytes, Tail(percentages))

\* the message texts: what they are about and what they say
GroupAlert(mb) ==
  [subject |-> "Combined .caido files", name |-> <<>>, percentage |-> 100,
   thresholdMB |-> mb]
GroupWarning(percentage, mb) ==
  [subject |-> "Combined .caido files", name |-> <<>>,
   percentage |-> percentage, thresholdMB |-> mb]
FileAlert(name, mb) ==
  [subject |-> "File", name |-> name, percentage |-> 100, thresholdMB |-> mb]
FileWarning(name, percentage, mb) ==
  [subject |-> "File", name |-> name, percentage |-> percentage,
   thresholdMB |-> mb]

\* the alert-then-first-matching-warning determination of one entity:
\* the record of what is pushed and sent; warningMsg is the warning text
\* with its ${percentage} still to be filled in
DetermineWarningUnsent(size, mb, warn, percentages, alertMsg, warningMsg) ==
  IF Exceeds(size, ThresholdBytes(mb))
    THEN [alerts |-> <<alertMsg>>, warnings |-> <<>>,
          events |-> <<[type |-> "error", message |-> alertMsg]>>]
    ELSE LET p == IF warn THEN FirstBand(size, ThresholdBytes(mb), percentages)
                          ELSE 0
         IN IF p # 0
              THEN LET w == [warningMsg EXCEPT !.percentage = p] IN
                   [alerts |-> <<>>, warnings |-> <<w>>, events |-> <<>>]
              ELSE [alerts |-> <<>>, warnings |-> <<>>, events |-> <<>>]
Determine(size, mb, warn, percentages, alertMsg, warningMsg) ==
  IF Exceeds(size, ThresholdBytes(mb))
    THEN [alerts |-> <<alertMsg>>, warnings |-> <<>>,
          events |-> <<[type |-> "error", message |-> alertMsg]>>]
    ELSE LET p == IF warn THEN FirstBand(size, ThresholdBytes(mb), percentages)
                          ELSE 0
         IN IF p # 0
              THEN LET w == [warningMsg EXCEPT !.percentage = p] IN
                   [alerts |-> <<>>, warnings |-> <<w>>,
                    events |-> <<[type |-> "warning", message |-> w]>>]
              ELSE [alerts |-> <<>>, warnings |-> <<>>, events |-> <<>>]

NoDetermination == [alerts |-> <<>>, warnings |-> <<>>, events |-> <<>>]

Join(a, b) ==
  [alerts |-> a.alerts \o b.alerts, warnings |-> a.warnings \o b.warnings,
   events |-> a.events \o b.events]

\* if (directoryInfo.caidoFiles.length > 0) { ... }
CheckGroup(info, mb, warn, percentages) ==
  IF Len(info.caidoFiles) > 0
    THEN Determine(info.caidoTotalSize, mb, warn, percentages, GroupAlert(mb),
                   GroupWarning(0, mb))
    ELSE NoDetermination

\* if (!file.name.endsWith(".caido"))
CheckedAloneAll(file) == TRUE
CheckedAlone(file) == ~EndsWithCaido(file.name)

\* for (const file of directoryInfo.files) { ... }
RECURSIVE CheckFiles(_, _, _, _)
CheckFiles(fileSeq, mb, warn, percentages) ==
  IF fileSeq = <<>> THEN NoDetermination
  ELSE LET file == Head(fileSeq)
           one  == IF CheckedAlone(file)
                     THEN Determine(file.size, mb, warn, percentages,
                                    FileAlert(file.name, mb),
                                    FileWarning(file.name, 0, mb))
                     ELSE NoDetermination
       IN Join(one, CheckFiles(Tail(fileSeq), mb, warn, percentages))

EvalIdle ==
  /\ evalPc = "idle"
  /\ directoryInfo = EMPTY_INFO
  /\ thresholdMB = 10
  /\ enableWarnings = TRUE
  /\ warningAt75Percent = TRUE
  /\ warningAt90Percent = TRUE
  /\ evalResult = [alerts |-> <<>>, warnings |-> <<>>]
  /\ evalEvents = <<>>

\* the inventories getWorkspaceFiles can return for up to MaxFiles files
WalkedFiles ==
  UNION { { [i \in 1..n |-> FileInfo(<<[id |-> i, ext |-> f[i].ext]>>, f[i].size)] :
              f \in [1..n -> [size : EvalSizes, ext : Exts]] } : n \in 0..MaxFiles }

RECURSIVE SumSizes(_)
SumSizes(s) == IF s = <<>> THEN 0 ELSE Head(s).size + SumSizes(Tail(s))

EvalInit ==
  /\ evalPc = "ready"
  /\ \E walked \in WalkedFiles :
       directoryInfo = Inventory(walked, SumSizes(walked), "projectDir")
  /\ thresholdMB \in ThresholdsMB
  /\ enableWarnings \in BOOLEAN
  /\ warningAt75Percent \in BOOLEAN
  /\ warningAt90Percent \in BOOLEAN
  /\ evalResult = [alerts |-> <<>>, warnings |-> <<>>]
  /\ evalEvents = <<>>

\* checkFileSizeThresholds(sdk, directoryInfo, thresholdMB, enableWarnings,
\*                         warningPercentages)
CheckFileSizeThresholds ==
  /\ evalPc = "ready"
  /\ LET percentages == WarningPercentages(warningAt75Percent, warningAt90Percent)
         r == Join(CheckGroup(directoryInfo, thresholdMB, enableWarnings,
                              percentages),
                   CheckFiles(directoryInfo.files, thresholdMB, enableWarnings,
                              percentages))
     IN /\ evalResult' = [alerts |-> r.alerts, warnings |-> r.warnings]
        /\ evalEvents' = evalEvents \o r.events
  /\ evalPc' = "done"
  /\ UNCHANGED <<escVars, scanVars, pathVars, loadVars, applyVars, directoryInfo, thresholdMB, enableWarnings,
                 warningAt75Percent, warningAt90Percent>>

EvalNext == CheckFileSizeThresholds

(***************************************************************************)
(* getWorkspaceFiles(sdk, workspacePath?): the selection of the scan path  *)
(***************************************************************************)
\* a string is the sequence of its characters (or longer fixed pieces)
PathChars == {"~", "\\", " ", "a"}
Platforms == {"darwin", "linux", "win32", "other"}
Home == <<"home">>
FallbackPath == <<"sdk.meta.path()">>
ProjectId == <<"/", "id">>

RECURSIVE SeqsUpTo(_, _)
SeqsUpTo(S, n) ==
  IF n = 0 THEN {<<>>}
  ELSE LET shorter == SeqsUpTo(S, n - 1) IN
       shorter \cup { Append(q, c) : q \in { r \in shorter : Len(r) = n - 1 }, c \in S }

WorkspacePaths ==
  {[kind |-> "null", chars |-> <<>>], [kind |-> "undefined", chars |-> <<>>]}
  \cup { [kind |-> "string", chars |-> q] : q \in SeqsUpTo(PathChars, MaxPathLen) }

\* String.prototype.trim
RECURSIVE TrimStart(_)
TrimStart(str) ==
  IF str # <<>> /\ Head(str) = " " THEN TrimStart(Tail(str)) ELSE str
RECURSIVE TrimEnd(_)
TrimEnd(str) ==
  IF str # <<>> /\ str[Len(str)] = " "
    THEN TrimEnd(SubSeq(str, 1, Len(str) - 1)) ELSE str
Trim(str) == TrimEnd(TrimStart(str))

\* path.replace(/\\\\ /g, " "): every run of two backslashes and a space
RECURSIVE Unescape(_)
Unescape(str) ==
  IF Len(str) >= 3 /\ str[1] = "\\" /\ str[2] = "\\" /\ str[3] = " "
    THEN <<" ">> \o Unescape(SubSeq(str, 4, Len(str)))
  ELSE IF str = <<>> THEN <<>>
  ELSE <<Head(str)>> \o Unescape(Tail(str))

ExpandPath(inputPath) ==
  LET trimmed == Trim(inputPath)
      tilde == IF trimmed # <<>> /\ Head(trimmed) = "~"
                 THEN Home \o Tail(trimmed) ELSE trimmed
  IN Unescape(tilde)

GetCaidoProjectsDir(p) ==
  Home \o
  (CASE p = "darwin" -> <<"/Library/Application Support/io.caido.Caido/projects">>
     [] p = "linux" -> <<"/.local/share/caido/projects">>
     [] p = "win32" -> <<"/caido/Caido/data/projects">>
     [] OTHER -> <<"/projects">>)

\* workspacePath !== null && workspacePath !== undefined &&
\* workspacePath.length > 0
IsCustomPath(wp) == wp.kind = "string" /\ Len(wp.chars) > 0

PathIdle ==
  /\ workspacePath = [kind |-> "undefined", chars |-> <<>>]
  /\ platform = "linux"
  /\ pathPc = "idle"
  /\ path = <<>>
  /\ pathSource = "none"
  /\ project = "unasked"
  /\ pathOutcome = "pending"

PathInit ==
  /\ workspacePath \in WorkspacePaths
  /\ platform \in Platforms
  /\ pathPc = "start"
  /\ path = <<>>
  /\ pathSource = "none"
  /\ project = "unasked"
  /\ pathOutcome = "pending"

\* the custom-path branch, up to the existence check of the selected path
UseCustomPath ==
  /\ pathPc = "start"
  /\ IsCustomPath(workspacePath)
  /\ path' = ExpandPath(workspacePath.chars)
  /\ pathSource' = "explicit"
  /\ pathPc' = "selected"
  /\ UNCHANGED <<escVars, scanVars, evalVars, loadVars, applyVars, workspacePath, platform, project,
                 pathOutcome>>

\* the project branch, from the answer of await sdk.projects.getCurrent()
UseProjectPath(answer, projectDirExists) ==
  /\ pathPc = "start"
  /\ ~IsCustomPath(workspacePath)
  /\ project' = answer
  /\ IF answer = "none"
       THEN /\ pathPc' = "done"
            /\ pathOutcome' = "empty"
            /\ UNCHANGED <<path, pathSource>>
       ELSE /\ pathPc' = "selected"
            /\ IF projectDirExists
                 THEN /\ path' = GetCaidoProjectsDir(platform) \o ProjectId
                      /\ pathSource' = "projectDir"
                 ELSE /\ path' = FallbackPath
                      /\ pathSource' = "fallback"
            /\ UNCHANGED pathOutcome
  /\ UNCHANGED <<escVars, scanVars, evalVars, loadVars, applyVars, workspacePath, platform>>

\* if (!pathExists(path)) return the empty inventory with scanPath: path;
\* otherwise the walk starts
CheckSelectedPath(exists) ==
  /\ pathPc = "selected"
  /\ pathPc' = "done"
  /\ pathOutcome' = IF exists THEN "walk" ELSE "empty"
  /\ UNCHANGED <<escVars, scanVars, evalVars, loadVars, applyVars, workspacePath, platform, path,
                 pathSource, project>>

PathNext ==
  \/ UseCustomPath
  \/ \E answer \in {"none", "current"}, projectDirExists \in BOOLEAN :
       UseProjectPath(answer, projectDirExists)
  \/ \E exists \in BOOLEAN : CheckSelectedPath(exists)

(***************************************************************************)
(* loadWorkspaceFiles and the handlers that call it                        *)
(***************************************************************************)
LoadIdle ==
  /\ isLoading = FALSE
  /\ workspaceFiles = [call |-> 0, kind |-> "initial"]
  /\ loads = <<>>
  /\ inFlight = {}

\* the alert shown for an inventory without files
NoFilesFound == [subject |-> "No files found", name |-> <<>>, percentage |-> 0,
                 thresholdMB |-> 0]

\* loadWorkspaceFiles up to its await: isLoading.value = true and the
\* request goes out
LoadWorkspaceFiles(trigger) ==
  /\ Len(loads) < MaxLoads
  /\ isLoading' = TRUE
  /\ loads' = Append(loads, trigger)
  /\ inFlight' = inFlight \cup {Len(loads) + 1}
  /\ UNCHANGED <<escVars, scanVars, evalVars, pathVars, applyVars, workspaceFiles>>

\* the mount hook: it registers the listeners and calls loadWorkspaceFiles
OnMounted ==
  /\ loads = <<>>
  /\ LoadWorkspaceFiles("mount")

\* a click on Refresh Files, whose button is disabled while it shows the
\* loading state
ButtonEnabled == ~isLoading

OnRefreshClick ==
  /\ loads # <<>>
  /\ ButtonEnabled
  /\ LoadWorkspaceFiles("refresh")

\* the listener of bytecap:project-changed
OnProjectChanged ==
  /\ loads # <<>>
  /\ LoadWorkspaceFiles("project-changed")

\* loadWorkspaceFiles from its await on: the answer of one call in flight,
\* an inventory with files, one without, or a rejection
LoadWorkspaceFilesResume(call, kind) ==
  /\ call \in inFlight
  /\ inFlight' = inFlight \ {call}
  /\ IF kind = "rejected"
       THEN /\ workspaceFiles' = [call |-> call, kind |-> "error"]
            /\ UNCHANGED uiAlerts
       ELSE /\ workspaceFiles' = [call |-> call, kind |-> kind]
            /\ uiAlerts' = IF kind = "empty" THEN <<NoFilesFound>> ELSE <<>>
  /\ isLoading' = FALSE
  /\ UNCHANGED <<ignoredAlerts, alertCounters, heap, closures, timers,
                 flashBanner, uiWarnings, mounted, shown, delivered, sinceClear,
                 restartAt, cleared, lastOp, lastDialog, scanVars, evalVars, pathVars,
                 applyVars, loads>>

LoadNext ==
  \/ OnMounted
  \/ OnRefreshClick
  \/ OnProjectChanged
  \/ \E call \in 1..MaxLoads, kind \in {"files", "empty", "rejected"} :
       LoadWorkspaceFilesResume(call, kind)

(***************************************************************************)
(* applySettings, checkThresholds and the events of their backend calls    *)
(***************************************************************************)
ApplyIdle ==
  /\ applyCount = 0
  /\ pendingEvents = <<>>
  /\ checks = {}
  /\ lastEventCall = 0
  /\ armedBy = <<>>

\* what one checkFileSizeThresholds call can send: nothing, an alert, or a
\* warning and an alert
SentEvents ==
  { <<>>,
    <<[type |-> "error", message |-> "m"]>>,
    <<[type |-> "warning", message |-> "m"], [type |-> "error", message |-> "m"]>> }

Tagged(events, call) ==
  [i \in 1..Len(events) |-> [alert |-> events[i], call |-> call]]

MessagesOf(events, type) ==
  LET T(e) == e.type = type
      sel == SelectSeq(events, T)
  IN [i \in 1..Len(sel) |-> sel[i].message]

\* a click on Apply Settings, a button that follows isLoading like Refresh
\* Files: applySettings up to the await in checkThresholds, that is
\* saveSettings, the global clear, and the request, whose events the backend
\* sends before it answers
ApplySettings(events) ==
  /\ applyCount < MaxApplies
  /\ ButtonEnabled
  /\ ClearAllNotifications
  /\ applyCount' = applyCount + 1
  /\ pendingEvents' = pendingEvents \o Tagged(events, applyCount + 1)
  /\ checks' = checks \cup {[call |-> applyCount + 1, events |-> events]}
  /\ UNCHANGED <<lastEventCall, armedBy>>

\* the listener of bytecap:threshold-alert, for the oldest event on the way
OnPendingThresholdAlert(ok) ==
  /\ pendingEvents # <<>>
  /\ ShowThresholdAlert(Head(pendingEvents).alert, ok)
  /\ pendingEvents' = Tail(pendingEvents)
  /\ lastEventCall' = Head(pendingEvents).call
  /\ armedBy' = IF Len(closures') > Len(closures)
                  THEN Append(armedBy, Head(pendingEvents).call)
                  ELSE armedBy
  /\ UNCHANGED <<applyCount, checks>>

\* checkThresholds after its await: alerts.value and warnings.value take
\* the answer
CheckThresholdsResume(call) ==
  /\ \E check \in checks :
       /\ check.call = call
       /\ checks' = checks \ {check}
       /\ uiAlerts' = MessagesOf(check.events, "error")
       /\ uiWarnings' = MessagesOf(check.events, "warning")
  /\ lastOp' = "checked"
  /\ lastDialog' = NoDialog
  /\ UNCHANGED <<ignoredAlerts, alertCounters, heap, closures, timers,
                 flashBanner, mounted, shown, delivered, sinceClear, restartAt,
                 cleared, scanVars, evalVars, pathVars, loadVars, applyCount,
                 pendingEvents, lastEventCall, armedBy>>

ApplyNext ==
  \/ \E events \in SentEvents : ApplySettings(events)
  \/ \E ok \in BOOLEAN : OnPendingThresholdAlert(ok)
  \/ \E t \in 1..MaxTimers, ok \in BOOLEAN : IntervalCallback(t, ok)
  \/ \E call \in 1..MaxApplies : CheckThresholdsResume(call)

ScanSpecInit == EscInit /\ ScanInit /\ EvalIdle /\ PathIdle /\ LoadIdle /\ ApplyIdle

ScanSpec == ScanSpecInit /\ [][ScanNext]_vars

EvalSpecInit == EscInit /\ ScanIdle /\ EvalInit /\ PathIdle /\ LoadIdle /\ ApplyIdle

PathSpecInit == EscInit /\ ScanIdle /\ EvalIdle /\ PathInit /\ LoadIdle /\ ApplyIdle

PathSpec == PathSpecInit /\ [][PathNext]_vars

EvalSpec == EvalSpecInit /\ [][EvalNext]_vars

Init == EscInit /\ ScanIdle /\ EvalIdle /\ PathIdle /\ LoadIdle /\ ApplyIdle

LoadSpec == Init /\ [][LoadNext]_vars

Next ==
  \/ \E alert \in AlertEvents, ok \in BOOLEAN : OnThresholdAlert(alert, ok)
  \/ \E t \in 1..MaxTimers, ok \in BOOLEAN : IntervalCallback(t, ok)
  \/ OnClearClick

Spec == Init /\ [][Next]_vars

TeardownNext ==
  \/ \E alert \in AlertEvents, ok \in BOOLEAN : OnThresholdAlert(alert, ok)
  \/ \E t \in 1..MaxTimers, ok \in BOOLEAN : IntervalCallback(t, ok)
  \/ OnClearClick
  \/ Unmount

TeardownSpec == Init /\ [][TeardownNext]_vars

ApplySpec == Init /\ [][ApplyNext]_vars

(***************************************************************************)
(* Properties of the escalator (Spec)                                      *)
(***************************************************************************)
LiveFor(k) == { t \in timers : closures[t].key = k }

\* C1: when one event of an identity was delivered, every dialog was
\* acknowledged and nothing was cleared, between 1 and 3 dialogs were
\* displayed for it, each numbered with its rank (occurrences 1, 2, 3), and
\* its timer is live exactly as long as fewer than 3 were displayed: after
\* the third no timer is left to display another.
C1_EscalationCount ==
  \A k \in Keys :
    (delivered[k] = 1 /\ ~cleared /\ k \notin ignoredAlerts) =>
      /\ shown[k] \in 1..3
      /\ (lastDialog.key = k /\ lastDialog.number > 0) =>
           lastDialog.number = shown[k]
      /\ (LiveFor(k) = {}) <=> (shown[k] = 3)

C1_Witness ==
  \E k \in Keys :
    /\ delivered[k] = 1 /\ ~cleared /\ k \notin ignoredAlerts
    /\ lastOp = "timer"
    /\ lastDialog = [key |-> k, number |-> 3]
    /\ shown[k] = 3
    /\ LiveFor(k) = {}

\* C2: while an identity is in ignoredAlerts, no step displays a dialog for
\* it, be it an event delivery or a timer fire (a global clear empties
\* ignoredAlerts and displays nothing).
C2_Suppression ==
  [][\A k \in Keys : k \in ignoredAlerts => shown'[k] = shown[k]]_vars

C2_Witness ==
  \E k \in ignoredAlerts :
    /\ lastOp = "timer"
    /\ lastDialog = [key |-> k, number |-> 0]
    /\ delivered[k] >= 2

\* C19: when the latest event of an identity found it completed (counter at
\* 3, no timer live, not ignored) and every dialog since was acknowledged
\* and nothing was cleared, the escalation ran again as for an unseen
\* identity: between 1 and 3 further dialogs were displayed, numbered
\* 1, 2, 3, and one timer is live exactly as long as fewer than 3 of them
\* were displayed.
C19_RestartAfterCompletion ==
  \A k \in Keys :
    (restartAt[k] >= 0 /\ k \notin ignoredAlerts) =>
      LET further == shown[k] - restartAt[k] IN
      /\ further \in 1..3
      /\ (lastDialog.key = k /\ lastDialog.number > 0) =>
           lastDialog.number = further
      /\ (LiveFor(k) = {}) <=> (further = 3)
      /\ Cardinality(LiveFor(k)) <= 1

C19_Witness ==
  \E k \in Keys :
    /\ restartAt[k] = 3 /\ k \notin ignoredAlerts
    /\ shown[k] = 6
    /\ lastOp = "timer"
    /\ lastDialog = [key |-> k, number |-> 3]
    /\ LiveFor(k) = {}

\* C20: the occurrence number of every displayed dialog and the count of
\* every identity's counter are between 1 and 3.
C20_OccurrenceBound ==
  /\ lastDialog.number <= 3
  /\ \A k \in Keys :
       alertCounters[k] # 0 => heap[alertCounters[k]].count \in 1..3

\* C8: right after clearAllNotifications no timer is live, alertCounters and
\* ignoredAlerts are empty and flashBanner is undefined; and a timer fire
\* displays a dialog only for an identity delivered since the last clear.
C8_GlobalClear ==
  /\ lastOp = "clear" =>
       /\ timers = {}
       /\ \A k \in Keys : alertCounters[k] = 0
       /\ ignoredAlerts = {}
       /\ flashBanner = Undefined
  /\ (lastOp = "timer" /\ lastDialog.number > 0) =>
       lastDialog.key \in sinceClear

(***************************************************************************)
(* Properties of getWorkspaceFiles (ScanSpec)                              *)
(***************************************************************************)
\* the directory entry a FileInfo was made from
NodeOf(file) == file.name[Len(file.name)].id

NodesOf(fileSeq) == { NodeOf(fileSeq[i]) : i \in 1..Len(fileSeq) }

IsCaidoEntry(file) == fs[NodeOf(file)].ext = "caido"

RECURSIVE Ancestors(_)
Ancestors(n) ==
  IF n = Root THEN {Root} ELSE {fs[n].parent} \cup Ancestors(fs[n].parent)

\* the regular files below directories that were all listed, stat succeeded
ReachableFiles ==
  { n \in Nodes : /\ fs[n].kind = "file"
                  /\ n \notin failed
                  /\ Ancestors(n) \cap failed = {} }

Returned == scanPc = "done" /\ scanOutcome = "returned"

\* C6: in every returned inventory totalSize is the sum of the sizes of
\* files, caidoFiles is the subsequence of the files whose entry name ends
\* with .caido, and caidoTotalSize is the sum of their sizes.
C6_InventoryInvariant ==
  Returned =>
    /\ scanResult.totalSize = SumSizes(scanResult.files)
    /\ scanResult.caidoFiles = SelectSeq(scanResult.files, IsCaidoEntry)
    /\ scanResult.caidoTotalSize =
         SumSizes(SelectSeq(scanResult.files, IsCaidoEntry))

C6_Witness ==
  /\ Returned
  /\ Len(scanResult.files) >= 2
  /\ Len(scanResult.caidoFiles) = 1
  /\ scanResult.totalSize > scanResult.caidoTotalSize
  /\ \E i \in 1..Len(scanResult.files) :
       LET f == scanResult.files[i] IN
       Len(f.name) > 1 /\ f.name[1].ext = "caido" /\ ~IsCaidoEntry(f)

PositionIn(fileSeq, file) == CHOOSE i \in 1..Len(fileSeq) : fileSeq[i] = file

\* C7: the returned files are the walked files ordered by size, largest
\* first, and files of equal size are in the order the walk found them.
C7_SortedStable ==
  (Returned /\ scanCase = "walk") =>
    LET r == scanResult.files IN
    /\ Len(r) = Len(walkOrder)
    /\ NodesOf(r) = NodesOf(walkOrder)
    /\ \A i, j \in 1..Len(r) :
         i < j =>
           /\ r[i].size >= r[j].size
           /\ r[i].size = r[j].size =>
                PositionIn(walkOrder, r[i]) < PositionIn(walkOrder, r[j])

C7_Witness ==
  /\ Returned /\ scanCase = "walk"
  /\ Len(walkOrder) = 3
  /\ walkOrder[1].size < walkOrder[2].size
  /\ walkOrder[1].size = walkOrder[3].size

\* C9: the files of the inventory a completed walk returns are exactly the
\* regular files whose stat succeeded and whose directories, the root
\* included, could all be listed; each is listed once.
C9_BestEffort ==
  (Returned /\ scanCase = "walk") =>
    /\ NodesOf(scanResult.files) = ReachableFiles
    /\ Len(scanResult.files) = Cardinality(ReachableFiles)

C9_Witness ==
  /\ Returned /\ scanCase = "walk"
  /\ \E d \in failed :
       /\ d # Root
       /\ fs[d].kind = "dir"
       /\ \E n \in Nodes : fs[n].parent = d /\ fs[n].kind = "file"
       /\ \E n \in NodesOf(scanResult.files) : n > d

\* C10: the call never rejects, and when there is no project, the project
\* directory does not exist or something throws, it returns EMPTY_INFO.
C10_NeverFails ==
  /\ scanOutcome # "rejected"
  /\ (scanPc = "done" /\ scanCase \in {"noProject", "rootMissing", "failure"})
       => (scanOutcome = "returned" /\ scanResult = EMPTY_INFO)

C10_Witness ==
  /\ scanPc = "done"
  /\ scanCase = "failure"
  /\ scanOutcome = "returned"
  /\ Len(files) > 0

\* C11: no scan-complete event exists before the walk is over; a call that
\* returns the inventory of its walk has sent exactly one, whose fileCount
\* and caidoFileCount are the lengths of the returned files and caidoFiles;
\* a call that ends without a project, without the project directory or in
\* the catch has sent none.
C11_ScanCompleteOnce ==
  /\ scanPc # "done" => scanEvents = <<>>
  /\ (Returned /\ scanCase = "walk") =>
       /\ Len(scanEvents) = 1
       /\ scanEvents[1].fileCount = Len(scanResult.files)
       /\ scanEvents[1].caidoFileCount = Len(scanResult.caidoFiles)
  /\ (scanPc = "done" /\ scanCase # "walk") => scanEvents = <<>>

C11_Witness ==
  /\ Returned /\ scanCase = "walk"
  /\ Len(scanEvents) = 1
  /\ scanEvents[1].fileCount = 3
  /\ scanEvents[1].caidoFileCount = 1

(***************************************************************************)
(* Properties of checkFileSizeThresholds (EvalSpec)                        *)
(***************************************************************************)
AboutGroup(m) == m.subject = "Combined .caido files"

\* what the call returned about the .caido group and about one file
GroupAlerts == SelectSeq(evalResult.alerts, AboutGroup)
GroupWarnings == SelectSeq(evalResult.warnings, AboutGroup)
FileAlerts(file) ==
  LET T(m) == m.subject = "File" /\ m.name = file.name IN
  SelectSeq(evalResult.alerts, T)
FileWarnings(file) ==
  LET T(m) == m.subject = "File" /\ m.name = file.name IN
  SelectSeq(evalResult.warnings, T)

Evaluated == evalPc = "done"
FilesIn == { directoryInfo.files[i] : i \in 1..Len(directoryInfo.files) }
IsCaidoFile(file) == file.name[Len(file.name)].ext = "caido"
LoneFiles == { f \in FilesIn : ~IsCaidoFile(f) }
HasGroup == Len(directoryInfo.caidoFiles) > 0
SuppliedBands ==
  (IF warningAt75Percent THEN {75} ELSE {}) \cup
  (IF warningAt90Percent THEN {90} ELSE {})
Limit == thresholdMB * 1048576

\* between 90% of the threshold and the threshold
InTopBand(size) == size * 100 >= Limit * 90 /\ size < Limit

OnlyThe90Warning(ws) == Len(ws) = 1 /\ ws[1].percentage = 90

\* C3: with warnings on and both bands active, an entity at or above 90% of
\* the threshold and below it gets exactly one warning, the 90% one.
C3_WarningPriority ==
  (Evaluated /\ enableWarnings /\ warningAt75Percent /\ warningAt90Percent) =>
    /\ (HasGroup /\ InTopBand(directoryInfo.caidoTotalSize)) =>
         OnlyThe90Warning(GroupWarnings)
    /\ \A f \in LoneFiles : InTopBand(f.size) => OnlyThe90Warning(FileWarnings(f))

\* the classification of one entity of the given size
Classified(size, as, ws) ==
  /\ size >= Limit => (Len(as) = 1 /\ Len(ws) = 0)
  /\ size < Limit => (Len(as) = 0 /\ Len(ws) <= 1)
  /\ (size < Limit /\ \A p \in SuppliedBands : size * 100 < Limit * p)
       => (Len(as) = 0 /\ Len(ws) = 0)

\* C4: an entity at or above the threshold yields one alert and no warning,
\* one below it no alert and at most one warning, one below every supplied
\* band nothing.
C4_Classification ==
  Evaluated =>
    /\ HasGroup =>
         Classified(directoryInfo.caidoTotalSize, GroupAlerts, GroupWarnings)
    /\ \A f \in LoneFiles : Classified(f.size, FileAlerts(f), FileWarnings(f))

C4_Witness ==
  /\ Evaluated
  /\ enableWarnings
  /\ \E f \in LoneFiles : f.size = Limit /\ Len(FileAlerts(f)) = 1
  /\ \E f \in LoneFiles : f.size < Limit /\ Len(FileWarnings(f)) = 1
  /\ HasGroup /\ GroupAlerts = <<>> /\ GroupWarnings = <<>>

\* C5: no alert, warning or event is about a single file whose name ends
\* with .caido.
C5_GroupedExclusive ==
  Evaluated =>
    \A f \in FilesIn :
      IsCaidoFile(f) =>
        /\ FileAlerts(f) = <<>>
        /\ FileWarnings(f) = <<>>
        /\ \A i \in 1..Len(evalEvents) :
             ~(evalEvents[i].message.subject = "File"
               /\ evalEvents[i].message.name = f.name)

C5_Witness ==
  /\ Evaluated
  /\ \E f \in FilesIn : IsCaidoFile(f) /\ f.size >= Limit
  /\ Len(GroupAlerts) = 1
  /\ \E f \in LoneFiles : Len(FileAlerts(f)) = 1

\* the messages of the events of one type, in the order they were sent
EventsOfType(type) ==
  LET T(e) == e.type = type
      sel == SelectSeq(evalEvents, T)
  IN [i \in 1..Len(sel) |-> sel[i].message]

\* the place of the entity a message is about: 0 for the .caido group, the
\* index in the inventory's files for a file
RankOf(m) ==
  IF AboutGroup(m) THEN 0
  ELSE CHOOSE i \in 1..Len(directoryInfo.files) :
         directoryInfo.files[i].name = m.name

\* C12: the events of a call are one error event per returned alert and one
\* warning event per returned warning, with the same messages and in the
\* same order, and nothing else; none is sent outside the call; the event of
\* the .caido group comes first and those of the files follow in inventory
\* order.
C12_EventsMatchResult ==
  /\ ~Evaluated => evalEvents = <<>>
  /\ Evaluated =>
       /\ \A i \in 1..Len(evalEvents) : evalEvents[i].type \in {"error", "warning"}
       /\ EventsOfType("error") = evalResult.alerts
       /\ EventsOfType("warning") = evalResult.warnings
       /\ \A i, j \in 1..Len(evalEvents) :
            i < j => RankOf(evalEvents[i].message) < RankOf(evalEvents[j].message)

C12_Witness ==
  /\ Evaluated
  /\ Len(evalEvents) = 3
  /\ AboutGroup(evalEvents[1].message) /\ evalEvents[1].type = "warning"
  /\ evalEvents[2].type = "error" /\ evalEvents[3].type = "warning"
  /\ Len(evalResult.alerts) = 1 /\ Len(evalResult.warnings) = 2

\* the counter object a live timer can still be cancelled through: the one
\* registered for its identity, holding this timer's id
Cancellable(t) ==
  LET k == closures[t].key IN
  /\ alertCounters[k] # 0
  /\ heap[alertCounters[k]].intervalId = t

\* C15: every live timer is the one recorded for its identity, so that the
\* third occurrence, suppression or a global clear cancels it, and no
\* identity has more than one live timer.
C15_NoTimerLeak ==
  /\ \A k \in Keys : Cardinality(LiveFor(k)) <= 1
  /\ \A t \in timers : Cancellable(t)

\* C14: once the component is unmounted no timer is live and no dialog is
\* displayed.
C14_TeardownCleanup ==
  ~mounted => (timers = {} /\ lastDialog.number = 0)

\* C16: a call with a non-positive threshold returns no alert and no warning
\* and sends no event, whatever the inventory.
C16_VacuousOnNonPositive ==
  (Evaluated /\ thresholdMB <= 0) =>
    /\ evalResult.alerts = <<>>
    /\ evalResult.warnings = <<>>
    /\ evalEvents = <<>>

\* C17: at most one getWorkspaceFiles call is in flight, and isLoading is
\* true while one is.
C17_SingleFlight ==
  /\ Cardinality(inFlight) <= 1
  /\ inFlight # {} => isLoading

\* C18: an event of a checkFileSizeThresholds call of an earlier
\* applySettings run, delivered after the clear of a later run, displays no
\* dialog, and every live timer was armed by an event of the latest run.
C18_NoStaleEscalation ==
  /\ (lastOp = "event" /\ lastEventCall < applyCount) => lastDialog.number = 0
  /\ \A t \in timers : armedBy[t] = applyCount

(***************************************************************************)
(* Properties of the path selection (PathSpec)                             *)
(***************************************************************************)
PathSelected == pathPc \in {"selected", "done"}
NonEmptyAfterTrim ==
  workspacePath.kind = "string" /\ Trim(workspacePath.chars) # <<>>

\* C13: the explicit path is the one used exactly when it is non-empty after
\* trimming, and then without asking for the project; otherwise (absent,
\* empty or whitespace-only) the current project is asked for and the project
\* directory or the fallback path is used, or the empty inventory is
\* returned when there is no project.
C13_PathResolution ==
  PathSelected =>
    /\ (pathSource = "explicit") <=> NonEmptyAfterTrim
    /\ NonEmptyAfterTrim => (project = "unasked" /\ path # <<>>)
    /\ ~NonEmptyAfterTrim =>
         /\ project \in {"none", "current"}
         /\ project = "none" => (pathOutcome = "empty" /\ pathSource = "none")
         /\ project = "current" => pathSource \in {"projectDir", "fallback"}

====
